---- MODULE Spec2Model ----
(***************************************************************************)
(* Virality scoring of short posts: the enhanced scorer                    *)
(* (enhanced_algorithm.py) and the service around it                       *)
(* (twitter_algorithm_service.py).                                         *)
(*                                                                         *)
(* A text is a sequence of one-character strings.  Every score is a        *)
(* fixed-point number in thousandths: 1000 stands for 1.0, 150 for 0.15.   *)
(* All weights of the program are multiples of 0.001, so sums and          *)
(* products of them are exact in this unit; x * 0.2 is written             *)
(* Times(x, 200).  The program itself computes in binary floating point:  *)
(* its sums differ from the exact ones in the last bits, so that where     *)
(* 100 times the sum of a breakdown is a whole number int() of it can be   *)
(* one less than the exact value (1.4999999999999998 * 100 gives 149).     *)
(* Comparisons with the thresholds of the program are not affected.        *)
(***************************************************************************)
EXTENDS Integers, Sequences, FiniteSets, TLC

VARIABLES
    text,                 \* the tweet text handed to the service
    metadata,             \* the optional metadata dict, or None
    has_arg,              \* len(sys.argv) >= 2 in the hosting process
    components_present,   \* the required algorithm component paths exist
    enhanced_importable,  \* "from enhanced_algorithm import ..." succeeds
    faults,               \* the sub-score calculators whose body raises
    is_initialized,       \* TwitterAlgorithmService.is_initialized
    toxicity_model,       \* TwitterAlgorithmService.toxicity_model
    light_ranker_model,   \* TwitterAlgorithmService.light_ranker_model
    stdout,               \* the lines printed to sys.stdout, oldest first
    stderr,               \* the lines printed to sys.stderr, oldest first
    exit_code,            \* the process exit status once main has ended
    pc,                   \* "start", "api" (used as a library), "exited"
    calls_left,           \* the calls the client of the service still makes
    outcome               \* what the last call did: returned a value or raised

vars ==
    << text, metadata, has_arg, components_present, enhanced_importable, faults,
       is_initialized, toxicity_model, light_ranker_model, stdout, stderr,
       exit_code, pc, calls_left, outcome >>

None == "None"

Min(a, b) == IF a <= b THEN a ELSE b

Max(a, b) == IF a >= b THEN a ELSE b

\* x * w for a score x and a weight w, both in thousandths.
Times(x, w) == (x * w) \div 1000

----------------------------------------------------------------------------
(* Strings.                                                                *)

UpperLetters ==
    { "A","B","C","D","E","F","G","H","I","J","K","L","M",
      "N","O","P","Q","R","S","T","U","V","W","X","Y","Z" }

LowerLetters ==
    { "a","b","c","d","e","f","g","h","i","j","k","l","m",
      "n","o","p","q","r","s","t","u","v","w","x","y","z" }

Digits == { "0","1","2","3","4","5","6","7","8","9" }

\* str.lower() on the letters it changes.
lower_of ==
    [ A |-> "a", B |-> "b", C |-> "c", D |-> "d", E |-> "e", F |-> "f", G |-> "g",
      H |-> "h", I |-> "i", J |-> "j", K |-> "k", L |-> "l", M |-> "m", N |-> "n",
      O |-> "o", P |-> "p", Q |-> "q", R |-> "r", S |-> "s", T |-> "t", U |-> "u",
      V |-> "v", W |-> "w", X |-> "x", Y |-> "y", Z |-> "z" ]

\* str.lower() on one character.
lower_char(c) == IF c \in UpperLetters THEN lower_of[c] ELSE c

\* str.lower()
lower(t) == [i \in 1..Len(t) |-> lower_char(t[i])]

\* "w in t" for strings: w occurs in t as a substring.
Contains(t, w) ==
    \/ w = << >>
    \/ LET n == Len(w)
           first == w[1]
       IN  \E i \in 1..(Len(t) - n + 1) :
               t[i] = first /\ \A j \in 2..n : t[i + j - 1] = w[j]

\* t.startswith(p)
startswith(t, p) == Len(t) >= Len(p) /\ \A j \in 1..Len(p) : t[j] = p[j]

\* t.count(c) for a one-character c
count(t, c) == Cardinality({i \in 1..Len(t) : t[i] = c})

\* The regular expression classes \w and \s.
IsWordChar(c) == c \in LowerLetters \cup UpperLetters \cup Digits \cup {"_"}

IsSpace(c) == c \in {" ", "\t", "\n", "\r"}

\* t has p at position i.
MatchAt(t, i, p) == i + Len(p) - 1 <= Len(t) /\ \A j \in 1..Len(p) : t[i + j - 1] = p[j]

\* bool(re.search(r'https?://[^\s]+', t))
search_url(t) ==
    \E i \in 1..Len(t) :
        /\ MatchAt(t, i, <<"h","t","t","p">>)
        /\ LET k == IF MatchAt(t, i + 4, <<"s",":","/","/">>) THEN i + 8
                    ELSE IF MatchAt(t, i + 4, <<":","/","/">>) THEN i + 7
                    ELSE 0
           IN  k > 0 /\ k <= Len(t) /\ ~IsSpace(t[k])

\* bool(re.search(r'\[media\]|\[photo\]|\[video\]', t, re.IGNORECASE))
search_media(t) ==
    \/ Contains(lower(t), <<"[","m","e","d","i","a","]">>)
    \/ Contains(lower(t), <<"[","p","h","o","t","o","]">>)
    \/ Contains(lower(t), <<"[","v","i","d","e","o","]">>)

\* len(re.findall(sigil + r'\w+', t)): the sigil is not a word character, so
\* no two matches overlap and each match starts at a sigil that a word
\* character follows.
findall_count(t, sigil) ==
    Cardinality({i \in 1..(Len(t) - 1) : t[i] = sigil /\ IsWordChar(t[i + 1])})

\* any(w in t for w in words), words a list
AnyIn(words, t) == \E k \in 1..Len(words) : Contains(t, words[k])

\* sum(1 for w in words if w in t), words a list
CountIn(words, t) == Cardinality({k \in 1..Len(words) : Contains(t, words[k])})

----------------------------------------------------------------------------
(* EnhancedTwitterAlgorithm: the lookup tables of __init__.                *)

trending_topics ==
    << [word |-> <<"a","i">>, score |-> 900],
       [word |-> <<"a","r","t","i","f","i","c","i","a","l"," ","i","n","t","e","l","l","i","g","e","n","c","e">>, score |-> 900],
       [word |-> <<"m","a","c","h","i","n","e"," ","l","e","a","r","n","i","n","g">>, score |-> 800],
       [word |-> <<"c","r","y","p","t","o">>, score |-> 800],
       [word |-> <<"b","i","t","c","o","i","n">>, score |-> 800],
       [word |-> <<"b","l","o","c","k","c","h","a","i","n">>, score |-> 700],
       [word |-> <<"t","e","c","h">>, score |-> 700],
       [word |-> <<"s","t","a","r","t","u","p">>, score |-> 700],
       [word |-> <<"i","n","n","o","v","a","t","i","o","n">>, score |-> 600],
       [word |-> <<"b","r","e","a","k","i","n","g">>, score |-> 900],
       [word |-> <<"n","e","w","s">>, score |-> 600],
       [word |-> <<"u","p","d","a","t","e">>, score |-> 500],
       [word |-> <<"l","a","u","n","c","h">>, score |-> 800],
       [word |-> <<"r","e","l","e","a","s","e">>, score |-> 700],
       [word |-> <<"a","n","n","o","u","n","c","e","m","e","n","t">>, score |-> 800] >>

\* The emotional table without the word hate.
emotional_words_without_hate ==
    << [word |-> <<"a","m","a","z","i","n","g">>, score |-> 800],
       [word |-> <<"i","n","c","r","e","d","i","b","l","e">>, score |-> 800],
       [word |-> <<"s","h","o","c","k","i","n","g">>, score |-> 900],
       [word |-> <<"u","n","b","e","l","i","e","v","a","b","l","e">>, score |-> 800],
       [word |-> <<"m","i","n","d","-","b","l","o","w","i","n","g">>, score |-> 900],
       [word |-> <<"w","o","w">>, score |-> 700],
       [word |-> <<"e","x","c","i","t","e","d">>, score |-> 600],
       [word |-> <<"t","h","r","i","l","l","e","d">>, score |-> 700],
       [word |-> <<"p","u","m","p","e","d">>, score |-> 600],
       [word |-> <<"l","o","v","e">>, score |-> 600],
       [word |-> <<"a","n","g","r","y">>, score |-> 400] >>

emotional_words ==
    << [word |-> <<"a","m","a","z","i","n","g">>, score |-> 800],
       [word |-> <<"i","n","c","r","e","d","i","b","l","e">>, score |-> 800],
       [word |-> <<"s","h","o","c","k","i","n","g">>, score |-> 900],
       [word |-> <<"u","n","b","e","l","i","e","v","a","b","l","e">>, score |-> 800],
       [word |-> <<"m","i","n","d","-","b","l","o","w","i","n","g">>, score |-> 900],
       [word |-> <<"w","o","w">>, score |-> 700],
       [word |-> <<"e","x","c","i","t","e","d">>, score |-> 600],
       [word |-> <<"t","h","r","i","l","l","e","d">>, score |-> 700],
       [word |-> <<"p","u","m","p","e","d">>, score |-> 600],
       [word |-> <<"l","o","v","e">>, score |-> 600],
       [word |-> <<"h","a","t","e">>, score |-> 500],
       [word |-> <<"a","n","g","r","y">>, score |-> 400] >>

cta_words ==
    << [word |-> <<"w","h","a","t">>, score |-> 600],
       [word |-> <<"t","h","i","n","k">>, score |-> 700],
       [word |-> <<"o","p","i","n","i","o","n">>, score |-> 800],
       [word |-> <<"a","g","r","e","e">>, score |-> 700],
       [word |-> <<"d","i","s","a","g","r","e","e">>, score |-> 800],
       [word |-> <<"t","h","o","u","g","h","t","s">>, score |-> 800],
       [word |-> <<"s","h","a","r","e">>, score |-> 700],
       [word |-> <<"r","e","t","w","e","e","t">>, score |-> 600],
       [word |-> <<"c","o","m","m","e","n","t">>, score |-> 600] >>

professional_words ==
    << <<"l","a","u","n","c","h">>,
       <<"a","n","n","o","u","n","c","e">>,
       <<"i","n","t","r","o","d","u","c","e">>,
       <<"r","e","l","e","a","s","e">>,
       <<"u","p","d","a","t","e">> >>

Enhanced_toxic_words ==
    << <<"h","a","t","e">>,
       <<"s","t","u","p","i","d">>,
       <<"i","d","i","o","t">>,
       <<"k","i","l","l">>,
       <<"d","i","e">> >>

----------------------------------------------------------------------------
(* What the program reads from its environment.                            *)

\* datetime.now().hour
Hours == 0..23

\* random.uniform(-0.1, 0.1), in thousandths: the two ends, zero and two
\* draws that are no multiple of 0.01.
Perturbations == {-100, -37, 0, 55, 100}

----------------------------------------------------------------------------
(* EnhancedTwitterAlgorithm.                                               *)

Enhanced_extract_features(t) ==
    [ text                |-> t,
      has_url             |-> search_url(t),
      has_media           |-> search_media(t),
      is_retweet          |-> startswith(t, <<"R","T"," ","@">>)
                                \/ Contains(t, <<"v","i","a"," ","@">>),
      is_reply            |-> startswith(t, <<"@">>),
      length              |-> Len(t),
      hashtag_count       |-> findall_count(t, "#"),
      mention_count       |-> findall_count(t, "@"),
      question_mark_count |-> count(t, "?"),
      exclamation_count   |-> count(t, "!"),
      author_id           |-> None,
      tweet_id            |-> None ]

\* The largest score among the table entries whose word occurs in t, else 0.
RECURSIVE MaxMatch(_, _, _)
MaxMatch(table, t, k) ==
    IF k = 0 THEN 0
    ELSE IF Contains(t, table[k].word)
         THEN Max(MaxMatch(table, t, k - 1), table[k].score)
         ELSE MaxMatch(table, t, k - 1)

\* The sum of the scores of the table entries whose word occurs in t.
RECURSIVE SumMatch(_, _, _)
SumMatch(table, t, k) ==
    IF k = 0 THEN 0
    ELSE SumMatch(table, t, k - 1)
         + (IF Contains(t, table[k].word) THEN table[k].score ELSE 0)

calculate_trending_score(t) == MaxMatch(trending_topics, lower(t), Len(trending_topics))

calculate_emotional_score(t) ==
    Min(SumMatch(emotional_words, lower(t), Len(emotional_words)), 1000)

calculate_cta_score(t) == Min(SumMatch(cta_words, lower(t), Len(cta_words)), 1000)

\* The unclamped score with three exclamation marks penalised already.
content_quality_score_from_three(features) ==
    LET base == 300
        afterLength ==
            IF 100 <= features.length /\ features.length <= 200 THEN base + 300
            ELSE IF 50 <= features.length /\ features.length <= 280 THEN base + 200
            ELSE IF features.length < 50 THEN base - 100
            ELSE base
        trending_score == calculate_trending_score(features.text)
        emotional_score == calculate_emotional_score(features.text)
        cta_score == calculate_cta_score(features.text)
        afterWords == afterLength + Times(trending_score, 200)
                          + Times(emotional_score, 150) + Times(cta_score, 100)
        afterQuestion ==
            IF features.question_mark_count > 0 THEN afterWords + 100 ELSE afterWords
        score ==
            IF 1 <= features.exclamation_count /\ features.exclamation_count <= 2
            THEN afterQuestion + 50
            ELSE IF features.exclamation_count >= 3 THEN afterQuestion - 50
            ELSE afterQuestion
    IN  score

\* The unclamped score with a penalty of 0.2 for a text shorter than 50.
content_quality_score_short_penalty(features) ==
    LET base == 300
        afterLength ==
            IF 100 <= features.length /\ features.length <= 200 THEN base + 300
            ELSE IF 50 <= features.length /\ features.length <= 280 THEN base + 200
            ELSE IF features.length < 50 THEN base - 200
            ELSE base
        trending_score == calculate_trending_score(features.text)
        emotional_score == calculate_emotional_score(features.text)
        cta_score == calculate_cta_score(features.text)
        afterWords == afterLength + Times(trending_score, 200)
                          + Times(emotional_score, 150) + Times(cta_score, 100)
        afterQuestion ==
            IF features.question_mark_count > 0 THEN afterWords + 100 ELSE afterWords
        score ==
            IF 1 <= features.exclamation_count /\ features.exclamation_count <= 2
            THEN afterQuestion + 50
            ELSE IF features.exclamation_count > 3 THEN afterQuestion - 50
            ELSE afterQuestion
    IN  score

\* The score of calculate_content_quality before its final clamp.
content_quality_score(features) ==
    LET base == 300
        afterLength ==
            IF 100 <= features.length /\ features.length <= 200 THEN base + 300
            ELSE IF 50 <= features.length /\ features.length <= 280 THEN base + 200
            ELSE IF features.length < 50 THEN base - 100
            ELSE base
        trending_score == calculate_trending_score(features.text)
        emotional_score == calculate_emotional_score(features.text)
        cta_score == calculate_cta_score(features.text)
        afterWords == afterLength + Times(trending_score, 200)
                          + Times(emotional_score, 150) + Times(cta_score, 100)
        afterQuestion ==
            IF features.question_mark_count > 0 THEN afterWords + 100 ELSE afterWords
        score ==
            IF 1 <= features.exclamation_count /\ features.exclamation_count <= 2
            THEN afterQuestion + 50
            ELSE IF features.exclamation_count > 3 THEN afterQuestion - 50
            ELSE afterQuestion
    IN  score

\* calculate_content_quality without its upper bound.
calculate_content_quality_uncapped(features) == Max(0, content_quality_score(features))

\* calculate_content_quality with the base score as its lower bound.
calculate_content_quality_floored(features) ==
    Max(300, Min(1000, content_quality_score(features)))

calculate_content_quality(features) == Max(0, Min(1000, content_quality_score(features)))

calculate_engagement_potential(features) ==
    LET base == 200
        afterQuestion == IF features.question_mark_count > 0 THEN base + 250 ELSE base
        cta_score == calculate_cta_score(features.text)
        emotional_score == calculate_emotional_score(features.text)
        afterWords == afterQuestion + Times(cta_score, 200) + Times(emotional_score, 150)
        afterHashtags ==
            IF 1 <= features.hashtag_count /\ features.hashtag_count <= 3
            THEN afterWords + 100
            ELSE IF features.hashtag_count > 5 THEN afterWords - 100
            ELSE afterWords
        afterMentions ==
            IF 1 <= features.mention_count /\ features.mention_count <= 2
            THEN afterHashtags + 50
            ELSE IF features.mention_count > 3 THEN afterHashtags - 50
            ELSE afterHashtags
        score == IF features.has_url THEN afterMentions + 50 ELSE afterMentions
    IN  Max(0, Min(1000, score))

\* calculate_dynamic_timing with the active hours ending before 22.
calculate_dynamic_timing_early_night(hour) ==
    IF 9 <= hour /\ hour <= 10 THEN 900
    ELSE IF 12 <= hour /\ hour <= 13 THEN 850
    ELSE IF 17 <= hour /\ hour <= 18 THEN 800
    ELSE IF 19 <= hour /\ hour <= 21 THEN 750
    ELSE IF 8 <= hour /\ hour < 22 THEN 600
    ELSE 300

\* hour is what datetime.now().hour returned.
calculate_dynamic_timing(hour) ==
    IF 9 <= hour /\ hour <= 10 THEN 900
    ELSE IF 12 <= hour /\ hour <= 13 THEN 850
    ELSE IF 17 <= hour /\ hour <= 18 THEN 800
    ELSE IF 19 <= hour /\ hour <= 21 THEN 750
    ELSE IF 8 <= hour /\ hour <= 22 THEN 600
    ELSE 300

\* The reputation as a function of what random.uniform(-0.1, 0.1) returned.
calculate_user_reputation(t) ==
    LET base == 500
        afterLength == IF Len(t) > 100 THEN base + 100 ELSE base
        trending_score == calculate_trending_score(t)
        afterTrending == afterLength + Times(trending_score, 100)
        sophistication_score ==
            IF AnyIn(professional_words, lower(t)) THEN afterTrending + 100
            ELSE afterTrending
    IN  [rnd \in Perturbations |-> Max(300, Min(900, sophistication_score + rnd))]

\* The toxicity sum taken on the text as written, not on text.lower().
Enhanced_toxicity_score_as_written(t) == 200 * CountIn(Enhanced_toxic_words, t)

\* sum(0.2 for word in toxic_words if word in text.lower())
Enhanced_toxicity_score(t) == 200 * CountIn(Enhanced_toxic_words, lower(t))

\* max(0.0, 1.0 - toxicity_score)
Enhanced_safety_score(toxicity_score) == Max(0, 1000 - toxicity_score)

\* The virality score with a final clamp to 100.
ViralityOf_clamped(breakdown) ==
    Min(100,
        ( ( breakdown.content_quality + breakdown.social_signals + breakdown.timing
            + breakdown.user_reputation + breakdown.safety_score ) * 100 ) \div 1000)

\* int(x * 100) of a sum x of breakdown values: the sum is not negative, so
\* truncation is the floor.
ViralityOf(breakdown) ==
    ( ( breakdown.content_quality + breakdown.social_signals + breakdown.timing
        + breakdown.user_reputation + breakdown.safety_score ) * 100 ) \div 1000

Suggestion(type, priority, suggestion, expected_improvement) ==
    [ type |-> type, priority |-> priority, suggestion |-> suggestion,
      expected_improvement |-> expected_improvement ]

\* The four rules of generate_suggestions, each the suggestions it appends.
content_suggestion(breakdown, features) ==
    IF breakdown.content_quality < 600
    THEN IF features.length < 100
         THEN << Suggestion("content", "high",
                     "Expand your tweet to 100-200 characters for better engagement", 20) >>
         ELSE << Suggestion("content", "high",
                     "Add trending keywords or emotional language to boost content quality", 15) >>
    ELSE << >>

\* The engagement rule with its test for a question mark turned round.
engagement_suggestion_turned(breakdown, features) ==
    IF breakdown.social_signals < 500
    THEN IF features.question_mark_count > 0
         THEN << Suggestion("engagement", "high",
                     "Add a question to encourage replies and increase engagement", 25) >>
         ELSE << Suggestion("engagement", "medium",
                     "Use more call-to-action words like \"think\", \"opinion\", or \"share\"", 15) >>
    ELSE << >>

engagement_suggestion(breakdown, features) ==
    IF breakdown.social_signals < 500
    THEN IF features.question_mark_count = 0
         THEN << Suggestion("engagement", "high",
                     "Add a question to encourage replies and increase engagement", 25) >>
         ELSE << Suggestion("engagement", "medium",
                     "Use more call-to-action words like \"think\", \"opinion\", or \"share\"", 15) >>
    ELSE << >>

timing_suggestion(breakdown) ==
    IF breakdown.timing < 700
    THEN << Suggestion("timing", "medium",
                "Consider posting during peak hours (9-10 AM, 12-1 PM, 5-6 PM, 7-9 PM)", 10) >>
    ELSE << >>

\* The hashtag rule with three hashtags counted as too many.
discoverability_suggestion_from_three(features) ==
    IF features.hashtag_count = 0
    THEN << Suggestion("discoverability", "medium",
                "Add 1-3 relevant hashtags to increase discoverability", 12) >>
    ELSE IF features.hashtag_count >= 3
    THEN << Suggestion("discoverability", "low",
                "Reduce hashtags to 1-3 for better performance", 8) >>
    ELSE << >>

discoverability_suggestion(features) ==
    IF features.hashtag_count = 0
    THEN << Suggestion("discoverability", "medium",
                "Add 1-3 relevant hashtags to increase discoverability", 12) >>
    ELSE IF features.hashtag_count > 3
    THEN << Suggestion("discoverability", "low",
                "Reduce hashtags to 1-3 for better performance", 8) >>
    ELSE << >>

Enhanced_generate_suggestions(breakdown, features) ==
    content_suggestion(breakdown, features) \o engagement_suggestion(breakdown, features)
        \o timing_suggestion(breakdown) \o discoverability_suggestion(features)

\* The result dict as a function of the hour the clock showed and of the
\* random draw.  features.timestamp, the wall clock in milliseconds, is left
\* out: nothing reads it back.
Enhanced_calculate_virality_score(t) ==
    LET features == Enhanced_extract_features(t)
        content_quality == calculate_content_quality(features)
        engagement_potential == calculate_engagement_potential(features)
        user_reputation == calculate_user_reputation(t)
        toxicity_score == Enhanced_toxicity_score(t)
        safety_score == Enhanced_safety_score(toxicity_score)
    IN  [ hour \in Hours, rnd \in Perturbations |->
            LET breakdown ==
                    [ content_quality |-> content_quality,
                      social_signals  |-> engagement_potential,
                      timing          |-> calculate_dynamic_timing(hour),
                      user_reputation |-> user_reputation[rnd],
                      safety_score    |-> Times(safety_score, 200) ]
            IN  [ score |->
                    [ light_ranker_score |-> content_quality,
                      heavy_ranker_score |-> None,
                      toxicity_score     |-> toxicity_score,
                      engagement_score   |-> engagement_potential,
                      virality_score     |-> ViralityOf(breakdown),
                      features           |-> features,
                      breakdown          |-> breakdown ],
                  suggestions       |-> Enhanced_generate_suggestions(breakdown, features),
                  algorithm_version |-> "enhanced-ai-v2.0",
                  processing_time   |-> 0 ] ]

----------------------------------------------------------------------------
(* TwitterAlgorithmService: the word lists of its calculators.             *)

Service_toxic_words ==
    << <<"h","a","t","e">>,
       <<"s","t","u","p","i","d">>,
       <<"i","d","i","o","t">>,
       <<"m","o","r","o","n">>,
       <<"k","i","l","l">>,
       <<"d","i","e">>,
       <<"d","a","m","n">>,
       <<"h","e","l","l">>,
       <<"c","r","a","p">>,
       <<"s","u","c","k">>,
       <<"t","e","r","r","i","b","l","e">>,
       <<"a","w","f","u","l">>,
       <<"d","i","s","g","u","s","t","i","n","g">>,
       <<"p","a","t","h","e","t","i","c">> >>

Service_cta_words ==
    << <<"w","h","a","t">>,
       <<"t","h","i","n","k">>,
       <<"o","p","i","n","i","o","n">>,
       <<"a","g","r","e","e">>,
       <<"d","i","s","a","g","r","e","e">>,
       <<"t","h","o","u","g","h","t","s">>,
       <<"s","h","a","r","e">> >>

Service_emotional_words ==
    << <<"a","m","a","z","i","n","g">>,
       <<"i","n","c","r","e","d","i","b","l","e">>,
       <<"s","h","o","c","k","i","n","g">>,
       <<"u","n","b","e","l","i","e","v","a","b","l","e">>,
       <<"w","o","w">> >>

peak_hours == {9, 10, 12, 13, 17, 18, 19, 20, 21}

----------------------------------------------------------------------------
(* What a call does: it returns a value or raises, and prints lines to     *)
(* sys.stdout on the way.  ran names the calculators of the service whose  *)
(* body was entered; hour and rnd are what the call read from the clock    *)
(* and from the random source (None: it read neither).                     *)

Returned(value, out, ran) ==
    [ status |-> "returned", value |-> value, error |-> None, out |-> out, ran |-> ran,
      hour |-> None, rnd |-> None ]

Raised(error, out, ran) ==
    [ status |-> "raised", value |-> None, error |-> error, out |-> out, ran |-> ran,
      hour |-> None, rnd |-> None ]

\* The call o, which read the hour and the random draw given.
Reading(o, hour, rnd) == [ o EXCEPT !.hour = hour, !.rnd = rnd ]

\* A metadata dict is a function from its keys; no metadata (None, falsy like
\* the empty dict) is the function with no key.
NoMetadata == << >>

\* metadata.get(key) if metadata else None
MetadataGet(md, key) ==
    IF DOMAIN md = {} THEN None
    ELSE IF key \in DOMAIN md THEN md[key] ELSE None

Service_extract_features(t, md) ==
    [ text                |-> t,
      has_url             |-> search_url(t),
      has_media           |-> search_media(t),
      is_retweet          |-> startswith(t, <<"R","T"," ","@">>)
                                \/ Contains(t, <<"v","i","a"," ","@">>),
      is_reply            |-> startswith(t, <<"@">>),
      length              |-> Len(t),
      hashtag_count       |-> findall_count(t, "#"),
      mention_count       |-> findall_count(t, "@"),
      question_mark_count |-> count(t, "?"),
      exclamation_count   |-> count(t, "!"),
      author_id           |-> MetadataGet(md, "authorId"),
      tweet_id            |-> MetadataGet(md, "tweetId") ]

\* calculate_light_ranker_score with its initialization guard turned round.
Service_calculate_light_ranker_score_unguarded(self, features) ==
    IF self.is_initialized
    THEN Raised("RuntimeError: Algorithm service not initialized", << >>, {})
    ELSE Returned(500, << >>, {"light_ranker"})

\* A calculator named in faults raises inside its try block: the handler
\* prints and returns the default.
Service_calculate_light_ranker_score(self, features) ==
    LET base == 500
        s1 == base + (IF 50 <= features.length /\ features.length <= 200 THEN 100 ELSE 0)
        s2 == s1 + (IF features.question_mark_count > 0 THEN 50 ELSE 0)
        s3 == s2 + (IF 0 < features.exclamation_count /\ features.exclamation_count <= 2
                    THEN 30 ELSE 0)
        s4 == s3 + (IF 1 <= features.hashtag_count /\ features.hashtag_count <= 3
                    THEN 80 ELSE 0)
        s5 == s4 + (IF 1 <= features.mention_count /\ features.mention_count <= 2
                    THEN 50 ELSE 0)
        s6 == s5 + (IF features.has_url THEN 20 ELSE 0)
        s7 == s6 + (IF features.has_media THEN 50 ELSE 0)
        s8 == s7 - (IF features.is_retweet THEN 100 ELSE 0)
        s9 == s8 - (IF features.hashtag_count > 5 THEN 100 ELSE 0)
        s10 == s9 - (IF features.mention_count > 3 THEN 50 ELSE 0)
        score == s10 - (IF features.exclamation_count > 3 THEN 50 ELSE 0)
    IN  IF ~self.is_initialized
        THEN Raised("RuntimeError: Algorithm service not initialized", << >>, {})
        ELSE IF "light_ranker" \in faults
        THEN Returned(500, << "Error calculating light ranker score" >>, {"light_ranker"})
        ELSE Returned(Max(0, Min(1000, score)), << >>, {"light_ranker"})

Service_calculate_toxicity_score(self, t) ==
    LET toxic_word_count == CountIn(Service_toxic_words, lower(t))
    IN  IF ~self.is_initialized
        THEN Raised("RuntimeError: Algorithm service not initialized", << >>, {})
        ELSE IF "toxicity" \in faults
        THEN Returned(100, << "Error calculating toxicity score" >>, {"toxicity"})
        ELSE Returned(Min(toxic_word_count * 200, 1000), << >>, {"toxicity"})

Service_calculate_engagement_score(self, features) ==
    LET base == 300
        afterQuestion == base + (IF features.question_mark_count > 0 THEN 200 ELSE 0)
        cta_count == CountIn(Service_cta_words, lower(features.text))
        emotional_count == CountIn(Service_emotional_words, lower(features.text))
        afterWords == afterQuestion + cta_count * 50 + emotional_count * 30
        score == afterWords
                 + (IF 100 <= features.length /\ features.length <= 200 THEN 100 ELSE 0)
    IN  IF ~self.is_initialized
        THEN Raised("RuntimeError: Algorithm service not initialized", << >>, {})
        ELSE IF "engagement" \in faults
        THEN Returned(300, << "Error calculating engagement score" >>, {"engagement"})
        ELSE Returned(Max(0, Min(1000, score)), << >>, {"engagement"})

\* hour is what datetime.now().hour returned.
calculate_timing_score(hour) ==
    IF hour \in peak_hours THEN 900
    ELSE IF 8 <= hour /\ hour <= 22 THEN 700
    ELSE 400

\* The AlgorithmScore, or the exception, as a function of the hour the clock
\* showed.  features.timestamp is left out, as in the enhanced scorer.
Service_calculate_virality_score(self, t, md) ==
    LET features == Service_extract_features(t, md)
        light == Service_calculate_light_ranker_score(self, features)
        toxicity == Service_calculate_toxicity_score(self, t)
        engagement == Service_calculate_engagement_score(self, features)
        out == light.out \o toxicity.out \o engagement.out
        ran == light.ran \cup toxicity.ran \cup engagement.ran
    IN  [ hour \in Hours |->
            IF ~self.is_initialized
            THEN Raised("RuntimeError: Algorithm service not initialized", << >>, {})
            ELSE IF "raised" \in {light.status, toxicity.status, engagement.status}
            THEN Raised("RuntimeError: Algorithm service not initialized",
                        out \o << "Error calculating virality score" >>, ran)
            ELSE LET breakdown ==
                         [ content_quality |-> Times(light.value, 400),
                           social_signals  |-> Times(engagement.value, 300),
                           timing          |-> calculate_timing_score(hour),
                           user_reputation |-> 700,
                           safety_score    |-> Times(1000 - toxicity.value, 200) ]
                 IN  Reading(Returned([ light_ranker_score |-> light.value,
                                        heavy_ranker_score |-> None,
                                        toxicity_score     |-> toxicity.value,
                                        engagement_score   |-> engagement.value,
                                        virality_score     |-> ViralityOf(breakdown),
                                        features           |-> features,
                                        breakdown          |-> breakdown ],
                                      out, ran),
                             hour, None) ]

\* generate_suggestions with the engagement rule ahead of the content rule.
Service_generate_suggestions_engagement_first(score) ==
    LET content ==
            IF score.breakdown.content_quality < 600
            THEN << Suggestion("content", "high",
                        "Improve content quality by adding more engaging language or expanding the tweet", 15) >>
            ELSE << >>
        engagement ==
            IF score.breakdown.social_signals < 500
            THEN << Suggestion("engagement", "high",
                        "Add a question or call-to-action to encourage replies and engagement", 20) >>
            ELSE << >>
        timing ==
            IF score.breakdown.timing < 700
            THEN << Suggestion("timing", "medium",
                        "Consider posting during peak hours (9-10 AM, 12-1 PM, 5-6 PM, 7-9 PM)", 10) >>
            ELSE << >>
        safety ==
            IF score.toxicity_score > 300
            THEN << Suggestion("safety", "high",
                        "Reduce potentially offensive language to improve content safety score", 25) >>
            ELSE << >>
    IN  engagement \o content \o timing \o safety

Service_generate_suggestions(score) ==
    LET content ==
            IF score.breakdown.content_quality < 600
            THEN << Suggestion("content", "high",
                        "Improve content quality by adding more engaging language or expanding the tweet", 15) >>
            ELSE << >>
        engagement ==
            IF score.breakdown.social_signals < 500
            THEN << Suggestion("engagement", "high",
                        "Add a question or call-to-action to encourage replies and engagement", 20) >>
            ELSE << >>
        timing ==
            IF score.breakdown.timing < 700
            THEN << Suggestion("timing", "medium",
                        "Consider posting during peak hours (9-10 AM, 12-1 PM, 5-6 PM, 7-9 PM)", 10) >>
            ELSE << >>
        safety ==
            IF score.toxicity_score > 300
            THEN << Suggestion("safety", "high",
                        "Reduce potentially offensive language to improve content safety score", 25) >>
            ELSE << >>
    IN  content \o engagement \o timing \o safety

\* int((time.time() - start_time) * 1000)
ElapsedMs == {0, 1}

\* Every way run_full_analysis(t, md) can end when the clock shows an hour of
\* hours and random.uniform draws from rnds.  An exception raised inside the
\* enhanced scorer is no ImportError: the outer handler prints and re-raises.
Service_run_full_analysis(self, t, md, hours, rnds) ==
    IF enhanced_importable
    THEN IF faults # {}
         THEN { Raised("Exception in EnhancedTwitterAlgorithm.calculate_virality_score",
                       << "Error running full analysis" >>, {}) }
         ELSE LET result == Enhanced_calculate_virality_score(t)
              IN  { Reading(Returned(result[hour, rnd], << >>, {}), hour, rnd) :
                        hour \in hours, rnd \in rnds }
    ELSE LET scores == Service_calculate_virality_score(self, t, md)
         IN  UNION { LET score == scores[hour]
                     IN  IF score.status = "raised"
                         THEN { Raised(score.error,
                                       score.out \o << "Error running full analysis" >>,
                                       score.ran) }
                         ELSE { Reading(Returned(
                                  [ score |-> score.value,
                                    suggestions |-> Service_generate_suggestions(score.value),
                                    algorithm_version |-> "twitter-algorithm-v1.0",
                                    processing_time |-> elapsed ],
                                  score.out, score.ran), hour, None) : elapsed \in ElapsedMs }
                   : hour \in hours }

----------------------------------------------------------------------------
(* The inputs.                                                             *)

Vocabulary ==
    << <<"R","T"," ","@","u"," ">>,
       <<"@","v"," ">>,
       <<"h","a","t","e"," ">>,
       <<"k","i","l","l"," ">>,
       <<"w","o","w"," ">>,
       <<"a","i"," ">>,
       <<"l","a","u","n","c","h"," ">>,
       <<"w","h","a","t"," ">>,
       <<"t","h","i","n","k"," ">>,
       <<"?"," ">>,
       <<"!"," ">>,
       <<"#","a"," ">>,
       <<"h","t","t","p",":","/","/","t",".","c","o"," ">>,
       <<"[","P","h","o","t","o","]"," ">> >>

\* A text takes at most MaxWords phrases of the vocabulary.
MaxWords == 2

\* The lengths a text is padded to: the ends of the length bands of the
\* calculators (50, 100, 200, 280, and 100 again for len(text) > 100), their
\* neighbours, and 30.
Lengths == {0, 30, 49, 50, 99, 100, 101, 200, 201, 280, 281}

RECURSIVE Compose(_, _)
\* The phrases of the vocabulary whose index is in S and at least k, in order.
Compose(S, k) ==
    IF k > Len(Vocabulary) THEN << >>
    ELSE (IF k \in S THEN Vocabulary[k] ELSE << >>) \o Compose(S, k + 1)

\* t filled with the letter x up to length n.
PadTo(t, n) == t \o [i \in 1..(n - Len(t)) |-> "x"]

SampleTexts ==
    {
      \* a retweet
      <<"R","T"," ","@","u","s","e","r",":"," ","h","e","l","l","o">>,
      \* a retweet by its via marker
      <<"h","e","l","l","o"," ","v","i","a"," ","@","u","s","e","r">>,
      \* four hashtags
      <<"#","#","a"," ","#","b"," ","#","c"," ","#","d">>,
      \* three question marks
      <<"?","?","?">>,
      \* hate next to a professional word that is in no table
      <<"w","e"," ","h","a","t","e"," ","t","o"," ","i","n","t","r","o","d","u","c","e"," ","i","t">>,
      \* two exclamation marks
      <<"!","!">>,
      \* exactly three exclamation marks
      <<"!","!","!">>,
      \* more than three exclamation marks
      <<"!","!","!","!">>,
      \* more than five hashtags
      <<"#","a"," ","#","b"," ","#","c"," ","#","d"," ","#","e"," ","#","f">>,
      \* a reply with more than three mentions
      <<"@","a"," ","@","b"," ","@","c"," ","@","d">>,
      \* two toxic words in upper case
      <<"H","A","T","E"," ","a","n","d"," ","K","I","L","L">>,
      \* every word of the enhanced toxic list
      <<"h","a","t","e"," ","s","t","u","p","i","d"," ","i","d","i","o","t"," ","k","i","l","l"," ","d","i","e">>,
      \* ai inside said
      <<"I"," ","s","a","i","d"," ","s","o">>,
      \* toxic words of the service list only
      <<"d","a","m","n",","," ","w","h","a","t"," ","t","h","e"," ","h","e","l","l">>,
      \* thirty characters, rich in table words
      <<"a","i"," ","w","o","w"," ","h","a","t","e"," ","w","h","a","t"," ","t","h","i","n","k"," ","!","x","x","x","x","x","x">>,
      \* every penalty of the enhanced scorer at once, four toxic words
      <<"s","t","u","p","i","d","i","o","t"," ","k","i","l","l"," ","d","i","e","!","!","!","!","#","a","#","b","#","c","#","d","#","e","#","f","@","a","@","b","@","c","@","d">>,
      \* every bonus of both variants at once
      <<"b","r","e","a","k","i","n","g"," ","l","a","u","n","c","h",":"," ","a","m","a","z","i","n","g"," ","w","o","w","!"," ","w","h","a","t"," ","d","o"," ","y","o","u"," ","t","h","i","n","k","?"," ","o","p","i","n","i","o","n"," ","d","i","s","a","g","r","e","e"," ","t","h","o","u","g","h","t","s"," ","s","h","a","r","e"," ","#","a"," ","@","b"," ","h","t","t","p",":","/","/","t",".","c","o","/","x"," ","[","p","h","o","t","o","]"," ","x","x","x","x","x","x","x","x","x","x","x">>
    }

\* The texts scored: phrases of the vocabulary, padded, and the samples.
Texts ==
    { PadTo(Compose(S, 1), n) :
        S \in { T \in SUBSET (1..Len(Vocabulary)) : Cardinality(T) <= MaxWords },
        n \in Lengths }
    \cup SampleTexts

\* The texts the service is driven with.
ServiceTexts ==
    { << >>, Compose({3, 4}, 1), Compose({8, 9, 10, 12}, 1) }

Metadatas ==
    { NoMetadata,
      [authorId |-> "author-1", tweetId |-> "tweet-1"],
      [authorId |-> "author-1"] }

Calculators == {"light_ranker", "toxicity", "engagement"}

\* A client of the service makes at most MaxCalls calls.
MaxCalls == 2

\* The hours and the random draws the service is driven with.
ServiceHours == {3, 10, 15}

ServiceRnds == {-100, 55}

----------------------------------------------------------------------------
(* The service and the process around it.                                  *)

Self ==
    [ is_initialized     |-> is_initialized,
      toxicity_model     |-> toxicity_model,
      light_ranker_model |-> light_ranker_model ]

\* initialize(): the service afterwards, what the call did, and the lines
\* it printed to sys.stderr.
Service_initialize(self) ==
    IF components_present
    THEN [ self |-> [ is_initialized     |-> TRUE,
                      toxicity_model     |-> "toxicity_model_loaded",
                      light_ranker_model |-> "light_ranker_model_loaded" ],
           call |-> Returned(None, << >>, {}),
           err  |-> IF ~has_arg
                    THEN << "Twitter Algorithm Service initialized successfully" >>
                    ELSE << >> ]
    ELSE [ self |-> self,
           call |-> Raised("FileNotFoundError: Required algorithm component not found",
                           << "Failed to initialize Twitter Algorithm Service" >>, {}),
           err  |-> << >> ]

NoCall ==
    [ op |-> "none", status |-> "none", value |-> None, error |-> None, ran |-> {},
      hour |-> None, rnd |-> None ]

CanCall == pc \in {"start", "api"} /\ calls_left > 0

\* The call op of a client ended as o.
Complete(op, o) ==
    /\ outcome' = [ op |-> op, status |-> o.status, value |-> o.value,
                    error |-> o.error, ran |-> o.ran, hour |-> o.hour, rnd |-> o.rnd ]
    /\ stdout' = stdout \o o.out
    /\ pc' = "api"
    /\ calls_left' = calls_left - 1
    /\ UNCHANGED << text, metadata, has_arg, components_present, enhanced_importable,
                    faults, exit_code >>

initialize ==
    /\ CanCall
    /\ LET done == Service_initialize(Self)
       IN  /\ is_initialized' = done.self.is_initialized
           /\ toxicity_model' = done.self.toxicity_model
           /\ light_ranker_model' = done.self.light_ranker_model
           /\ stderr' = stderr \o done.err
           /\ Complete("initialize", done.call)

calculate_light_ranker_score ==
    /\ CanCall
    /\ Complete("calculate_light_ranker_score",
                Service_calculate_light_ranker_score(
                    Self, Service_extract_features(text, metadata)))
    /\ UNCHANGED << is_initialized, toxicity_model, light_ranker_model, stderr >>

calculate_toxicity_score ==
    /\ CanCall
    /\ Complete("calculate_toxicity_score", Service_calculate_toxicity_score(Self, text))
    /\ UNCHANGED << is_initialized, toxicity_model, light_ranker_model, stderr >>

calculate_engagement_score ==
    /\ CanCall
    /\ Complete("calculate_engagement_score",
                Service_calculate_engagement_score(
                    Self, Service_extract_features(text, metadata)))
    /\ UNCHANGED << is_initialized, toxicity_model, light_ranker_model, stderr >>

calculate_virality_score(hours) ==
    /\ CanCall
    /\ \E o \in LET scores == Service_calculate_virality_score(Self, text, metadata)
                IN  { scores[hour] : hour \in hours } :
           Complete("calculate_virality_score", o)
    /\ UNCHANGED << is_initialized, toxicity_model, light_ranker_model, stderr >>

run_full_analysis(hours, rnds) ==
    /\ CanCall
    /\ \E o \in Service_run_full_analysis(Self, text, metadata, hours, rnds) :
           Complete("run_full_analysis", o)
    /\ UNCHANGED << is_initialized, toxicity_model, light_ranker_model, stderr >>

\* main(): the command line of twitter_algorithm_service.py, start to exit.
main(hours, rnds) ==
    /\ pc = "start"
    /\ pc' = "exited"
    /\ UNCHANGED << text, metadata, has_arg, components_present, enhanced_importable,
                    faults, calls_left >>
    /\ IF ~has_arg
       THEN /\ stderr' = stderr \o << "Usage: python twitter_algorithm_service.py <tweet_text>" >>
            /\ exit_code' = 1
            /\ outcome' = [ NoCall EXCEPT !.op = "main" ]
            /\ UNCHANGED << is_initialized, toxicity_model, light_ranker_model, stdout >>
       ELSE LET done == Service_initialize(Self)
            IN  /\ is_initialized' = done.self.is_initialized
                /\ toxicity_model' = done.self.toxicity_model
                /\ light_ranker_model' = done.self.light_ranker_model
                /\ IF done.call.status = "raised"
                   THEN /\ stdout' = stdout \o done.call.out
                        /\ stderr' = stderr \o done.err \o << "Error: " \o done.call.error >>
                        /\ exit_code' = 1
                        /\ outcome' = [ NoCall EXCEPT !.op = "main", !.status = "raised",
                                                       !.error = done.call.error ]
                   ELSE \E o \in Service_run_full_analysis(done.self, text, NoMetadata,
                                                           hours, rnds) :
                            /\ outcome' = [ op |-> "main", status |-> o.status,
                                            value |-> o.value, error |-> o.error,
                                            ran |-> o.ran, hour |-> o.hour,
                                            rnd |-> o.rnd ]
                            /\ IF o.status = "raised"
                               THEN /\ stdout' = stdout \o done.call.out \o o.out
                                    /\ stderr' = stderr \o done.err \o << "Error: " \o o.error >>
                                    /\ exit_code' = 1
                               ELSE /\ stdout' = stdout \o done.call.out \o o.out
                                                   \o << "json.dumps(result)" >>
                                    /\ stderr' = stderr \o done.err
                                    /\ exit_code' = 0

----------------------------------------------------------------------------
(* The service from its construction on, used as a library or run as a     *)
(* command.                                                                *)

Init ==
    /\ text \in ServiceTexts
    /\ metadata \in Metadatas
    /\ has_arg \in BOOLEAN
    /\ components_present \in BOOLEAN
    /\ enhanced_importable \in BOOLEAN
    /\ faults \in SUBSET Calculators
    /\ is_initialized = FALSE
    /\ toxicity_model = None
    /\ light_ranker_model = None
    /\ stdout = << >>
    /\ stderr = << >>
    /\ exit_code = None
    /\ pc = "start"
    /\ calls_left = MaxCalls
    /\ outcome = NoCall

Next ==
    \/ initialize
    \/ calculate_light_ranker_score
    \/ calculate_toxicity_score
    \/ calculate_engagement_score
    \/ calculate_virality_score(ServiceHours)
    \/ run_full_analysis(ServiceHours, ServiceRnds)
    \/ main(ServiceHours, ServiceRnds)

Spec == Init /\ [][Next]_vars

(* One scoring request to an initialized service, for every text, hour and *)
(* random draw.                                                            *)

InitScore ==
    /\ text \in Texts
    /\ metadata = NoMetadata
    /\ has_arg = TRUE
    /\ components_present = TRUE
    /\ enhanced_importable \in BOOLEAN
    /\ faults = {}
    /\ is_initialized = TRUE
    /\ toxicity_model = "toxicity_model_loaded"
    /\ light_ranker_model = "light_ranker_model_loaded"
    /\ stdout = << >>
    /\ stderr = << >>
    /\ exit_code = None
    /\ pc = "api"
    /\ calls_left = 1
    /\ outcome = NoCall

NextScore == run_full_analysis(Hours, Perturbations)

SpecScore == InitScore /\ [][NextScore]_vars

(* The methods of the enhanced scorer called on their own.                 *)

\* The breakdowns generate_suggestions is called with: both sides of each
\* of its thresholds.
SuggestBreakdowns ==
    [ content_quality : {0, 599, 600, 1000},
      social_signals  : {0, 499, 500, 1000},
      timing          : {300, 600, 699, 700, 900},
      user_reputation : {700},
      safety_score    : {200} ]

\* The feature records generate_suggestions is called with.
SuggestFeatures ==
    { [ Enhanced_extract_features(<< >>) EXCEPT
            !.length = n, !.question_mark_count = q, !.hashtag_count = h ] :
        n \in {0, 99, 100, 280}, q \in {0, 1}, h \in {0, 1, 3, 4, 6} }

\* EnhancedTwitterAlgorithm.generate_suggestions(breakdown, features)
generate_suggestions(breakdowns, records) ==
    /\ CanCall
    /\ \E breakdown \in breakdowns, features \in records :
           Complete("generate_suggestions",
                    Returned([ breakdown   |-> breakdown,
                               features    |-> features,
                               suggestions |-> Enhanced_generate_suggestions(
                                                   breakdown, features) ],
                             << >>, {}))
    /\ UNCHANGED << is_initialized, toxicity_model, light_ranker_model, stderr >>

InitSuggest ==
    /\ text = << >>
    /\ metadata = NoMetadata
    /\ has_arg = TRUE
    /\ components_present = TRUE
    /\ enhanced_importable = TRUE
    /\ faults = {}
    /\ is_initialized = FALSE
    /\ toxicity_model = None
    /\ light_ranker_model = None
    /\ stdout = << >>
    /\ stderr = << >>
    /\ exit_code = None
    /\ pc = "api"
    /\ calls_left = 1
    /\ outcome = NoCall

NextSuggest == generate_suggestions(SuggestBreakdowns, SuggestFeatures)

SpecSuggest == InitSuggest /\ [][NextSuggest]_vars

\* EnhancedTwitterAlgorithm.calculate_content_quality(extract_features(text))
content_quality ==
    /\ CanCall
    /\ Complete("calculate_content_quality",
                LET features == Enhanced_extract_features(text)
                IN  Returned([ features        |-> features,
                               content_quality |-> calculate_content_quality(features) ],
                             << >>, {}))
    /\ UNCHANGED << is_initialized, toxicity_model, light_ranker_model, stderr >>

NextQuality == content_quality

SpecQuality == InitScore /\ [][NextQuality]_vars

\* One request to an initialized service at the hours and random draws the
\* service is driven with, for every text.
NextPair == run_full_analysis(ServiceHours, ServiceRnds)

SpecPair == InitScore /\ [][NextPair]_vars

----------------------------------------------------------------------------
(* What a finished call left behind.                                       *)

\* The last call was run_full_analysis and it returned a result.
Scored == outcome.op = "run_full_analysis" /\ outcome.status = "returned"

\* ... and the result came from the enhanced scorer ...
EnhancedScored == Scored /\ outcome.value.algorithm_version = "enhanced-ai-v2.0"

\* ... or from the calculators of the service.
BaselineScored == Scored /\ outcome.value.algorithm_version = "twitter-algorithm-v1.0"

\* s holds the suggestion x.
Suggests(s, x) == \E i \in DOMAIN s : s[i] = x

\* The hours outside the peak windows named by the timing suggestion.
off_peak_hours == Hours \ {9, 10, 12, 13, 17, 18, 19, 20, 21}

----------------------------------------------------------------------------
(* C1: in a result of the enhanced scorer, content_quality,                *)
(* social_signals, timing and user_reputation of the breakdown lie in      *)
(* [0, 1] and safety_score of the breakdown lies in [0, 0.2].              *)
C1_BreakdownRanges ==
    EnhancedScored =>
        LET breakdown == outcome.value.score.breakdown
        IN  /\ breakdown.content_quality \in 0..1000
            /\ breakdown.social_signals \in 0..1000
            /\ breakdown.timing \in 0..1000
            /\ breakdown.user_reputation \in 0..1000
            /\ breakdown.safety_score \in 0..200

\* A text whose content quality and engagement potential both hit the
\* upper clamp.
C1_Witness ==
    /\ EnhancedScored
    /\ outcome.value.score.breakdown.content_quality = 1000
    /\ outcome.value.score.breakdown.social_signals = 1000
    /\ content_quality_score(outcome.value.score.features) > 1000

\* The largest breakdown each variant produces.
Enhanced_maximum ==
    [ content_quality |-> 1000, social_signals |-> 1000, timing |-> 900,
      user_reputation |-> 890, safety_score |-> 200 ]

Service_maximum ==
    [ content_quality |-> 352, social_signals |-> 300, timing |-> 900,
      user_reputation |-> 700, safety_score |-> 200 ]

(* C2: virality_score is the sum of the five breakdown values times 100,   *)
(* truncated to an integer, with no final clamp: it is above 100 when the  *)
(* five values are at the largest values their calculators produce.  Both  *)
(* variants.                                                               *)
C2_ViralityIsTruncatedSum ==
    Scored =>
        LET score == outcome.value.score
            breakdown == score.breakdown
            total == breakdown.content_quality + breakdown.social_signals
                         + breakdown.timing + breakdown.user_reputation
                         + breakdown.safety_score
        IN  /\ score.virality_score * 1000 <= total * 100
            /\ total * 100 < (score.virality_score + 1) * 1000
            /\ breakdown \in {Enhanced_maximum, Service_maximum}
                   => score.virality_score > 100

\* The enhanced scorer with every breakdown value at its largest: 399.
C2_Witness ==
    /\ EnhancedScored
    /\ outcome.value.score.breakdown = Enhanced_maximum
    /\ outcome.value.score.virality_score = 399

\* Three suggestions of the enhanced scorer.
expand_content ==
    Suggestion("content", "high",
        "Expand your tweet to 100-200 characters for better engagement", 20)

add_question ==
    Suggestion("engagement", "high",
        "Add a question to encourage replies and increase engagement", 25)

add_hashtags ==
    Suggestion("discoverability", "medium",
        "Add 1-3 relevant hashtags to increase discoverability", 12)

\* The case of C3: a text of length 30, no question mark, no hashtag,
\* scored by the enhanced scorer at an off-peak hour.
C3_Case ==
    /\ EnhancedScored
    /\ Len(text) = 30
    /\ outcome.hour \in off_peak_hours
    /\ count(text, "?") = 0
    /\ findall_count(text, "#") = 0

(* C3: for every text of length 30 without question mark and without       *)
(* hashtag that the enhanced scorer scores at an off-peak hour, the        *)
(* suggestions hold the add-hashtags suggestion (medium, 12); they hold    *)
(* the content-expansion suggestion (high, 20) exactly when                *)
(* content_quality is below 0.6 and the add-a-question suggestion (high,   *)
(* 25) exactly when social_signals is below 0.5; all three are there when  *)
(* the text holds no word of the emotional and call-to-action tables.      *)
C3_ShortTweetSuggestions ==
    C3_Case =>
        LET suggestions == outcome.value.suggestions
            breakdown == outcome.value.score.breakdown
        IN  /\ Suggests(suggestions, add_hashtags)
            /\ Suggests(suggestions, expand_content) <=> breakdown.content_quality < 600
            /\ Suggests(suggestions, add_question) <=> breakdown.social_signals < 500
            /\ (calculate_emotional_score(text) = 0 /\ calculate_cta_score(text) = 0)
                   => /\ Suggests(suggestions, expand_content)
                      /\ Suggests(suggestions, add_question)

\* A bare text of thirty characters: all three suggestions.
C3_Witness ==
    /\ C3_Case
    /\ calculate_emotional_score(text) = 0
    /\ calculate_cta_score(text) = 0
    /\ Suggests(outcome.value.suggestions, expand_content)
    /\ Suggests(outcome.value.suggestions, add_question)
    /\ Suggests(outcome.value.suggestions, add_hashtags)

\* C3 as the specification states it: at least three suggestions, the
\* three named ones among them, with no condition on the two scores.
C3_AsStated ==
    C3_Case =>
        /\ Len(outcome.value.suggestions) >= 3
        /\ Suggests(outcome.value.suggestions, expand_content)
        /\ Suggests(outcome.value.suggestions, add_question)
        /\ Suggests(outcome.value.suggestions, add_hashtags)

(* C4: a text that holds exactly two distinct words of the toxic-word      *)
(* list of the variant that scores it gets toxicity_score 0.4, an          *)
(* unscaled safety score of 0.6 and so 0.12 in the breakdown.  Both        *)
(* variants.                                                               *)
C4_TwoToxicWords ==
    /\ EnhancedScored
           => \/ /\ outcome.value.score.toxicity_score = 400
                 /\ Enhanced_safety_score(outcome.value.score.toxicity_score) = 600
                 /\ outcome.value.score.breakdown.safety_score = 120
              \/ CountIn(Enhanced_toxic_words, lower(text)) # 2
    /\ BaselineScored
           => \/ /\ outcome.value.score.toxicity_score = 400
                 /\ 1000 - outcome.value.score.toxicity_score = 600
                 /\ outcome.value.score.breakdown.safety_score = 120
              \/ CountIn(Service_toxic_words, lower(text)) # 2

\* Two toxic words in upper case, scored by the enhanced scorer.
C4_Witness ==
    /\ EnhancedScored
    /\ text = <<"H","A","T","E"," ","a","n","d"," ","K","I","L","L">>
    /\ CountIn(Enhanced_toxic_words, lower(text)) = 2
    /\ outcome.value.score.toxicity_score = 400
    /\ outcome.value.score.breakdown.safety_score = 120

(* C5: the enhanced scorer scores the empty text without raising; its      *)
(* features are all zero or false and its content quality is 0.2.          *)
C5_EmptyText ==
    (outcome.op = "run_full_analysis" /\ enhanced_importable /\ text = << >>) =>
        /\ outcome.status = "returned"
        /\ outcome.value.algorithm_version = "enhanced-ai-v2.0"
        /\ LET features == outcome.value.score.features
           IN  /\ features.length = 0
               /\ features.hashtag_count = 0
               /\ features.mention_count = 0
               /\ features.question_mark_count = 0
               /\ features.exclamation_count = 0
               /\ ~features.has_url
               /\ ~features.has_media
               /\ ~features.is_retweet
               /\ ~features.is_reply
        /\ outcome.value.score.light_ranker_score = 200
        /\ outcome.value.score.breakdown.content_quality = 200

\* The empty text, scored.
C5_Witness ==
    /\ EnhancedScored
    /\ text = << >>
    /\ outcome.value.score.features.length = 0
    /\ outcome.value.score.breakdown.content_quality = 200

----------------------------------------------------------------------------
(* C6: a scoring request whose light-ranker, toxicity or engagement        *)
(* computation raises still returns a result, with the default 0.5, 0.1    *)
(* or 0.3 in place of the failed sub-score, on whichever path              *)
(* run_full_analysis takes.                                                *)
C6_SubScoreFailureContained ==
    (outcome.op = "run_full_analysis" /\ is_initialized /\ faults # {}) =>
        /\ outcome.status = "returned"
        /\ "light_ranker" \in faults => outcome.value.score.light_ranker_score = 500
        /\ "toxicity" \in faults => outcome.value.score.toxicity_score = 100
        /\ "engagement" \in faults => outcome.value.score.engagement_score = 300

\* The same on the path through the calculators of the service alone, where
\* each calculator has its own handler.
C6_ContainedByTheService ==
    (outcome.op = "run_full_analysis" /\ is_initialized /\ faults # {}
         /\ ~enhanced_importable) =>
        /\ outcome.status = "returned"
        /\ "light_ranker" \in faults => outcome.value.score.light_ranker_score = 500
        /\ "toxicity" \in faults => outcome.value.score.toxicity_score = 100
        /\ "engagement" \in faults => outcome.value.score.engagement_score = 300

\* The toxicity computation raises inside the enhanced scorer and the
\* request of an initialized service ends with an exception.
C6_Propagates ==
    /\ outcome.op = "run_full_analysis"
    /\ is_initialized
    /\ enhanced_importable
    /\ faults = {"toxicity"}
    /\ outcome.status = "raised"

(* C7: a command-line run writes nothing to standard output but the one    *)
(* JSON document of a successful run; a failing run writes no JSON to      *)
(* standard output and exits non-zero.                                     *)
C7_StdoutOnlyJson ==
    pc = "exited" =>
        /\ \A i \in DOMAIN stdout : stdout[i] = "json.dumps(result)"
        /\ Len(stdout) <= 1
        /\ exit_code = 0 <=> Len(stdout) = 1

\* A run whose initialization fails leaves the failure line on standard
\* output.
C7_DiagnosticOnStdout ==
    /\ pc = "exited"
    /\ exit_code = 1
    /\ stdout = << "Failed to initialize Twitter Algorithm Service" >>

(* C8: metadata that supplies an author id and a tweet id comes back in    *)
(* the features of the result of run_full_analysis, and every score, the   *)
(* breakdown and the suggestions are what the same text gets without       *)
(* metadata.                                                               *)
C8_MetadataPassedThrough ==
    (Scored /\ DOMAIN metadata = {"authorId", "tweetId"}) =>
        /\ outcome.value.score.features.author_id = metadata.authorId
        /\ outcome.value.score.features.tweet_id = metadata.tweetId
        /\ \E o \in Service_run_full_analysis(
                        Self, text, NoMetadata, {outcome.hour},
                        IF EnhancedScored THEN {outcome.rnd} ELSE ServiceRnds) :
               /\ o.status = "returned"
               /\ o.value.score.light_ranker_score = outcome.value.score.light_ranker_score
               /\ o.value.score.toxicity_score = outcome.value.score.toxicity_score
               /\ o.value.score.engagement_score = outcome.value.score.engagement_score
               /\ o.value.score.virality_score = outcome.value.score.virality_score
               /\ o.value.score.breakdown = outcome.value.score.breakdown
               /\ o.value.suggestions = outcome.value.suggestions

\* The same for the result of the calculators of the service, which are
\* handed the metadata.
C8_PassedThroughByTheService ==
    (BaselineScored /\ DOMAIN metadata = {"authorId", "tweetId"}) =>
        /\ outcome.value.score.features.author_id = metadata.authorId
        /\ outcome.value.score.features.tweet_id = metadata.tweetId

\* The enhanced scorer is not handed the metadata: both ids come back
\* as None.
C8_IdsDropped ==
    /\ EnhancedScored
    /\ DOMAIN metadata = {"authorId", "tweetId"}
    /\ outcome.value.score.features.author_id = None
    /\ outcome.value.score.features.tweet_id = None

\* initialize has failed at some time: it printed its failure line.
InitializeFailed ==
    \E i \in DOMAIN stdout : stdout[i] = "Failed to initialize Twitter Algorithm Service"

ScoringOperations ==
    { "calculate_light_ranker_score", "calculate_toxicity_score",
      "calculate_engagement_score", "calculate_virality_score", "run_full_analysis" }

(* C9: when a required component path is absent initialize raises,         *)
(* is_initialized stays false, and from then on no scoring operation       *)
(* scores or returns a result; is_initialized is true only with the        *)
(* components present and the models loaded.                               *)
C9_FailedInitializeDisables ==
    /\ (outcome.op = "initialize" /\ ~components_present) => outcome.status = "raised"
    /\ InitializeFailed => ~is_initialized
    /\ (InitializeFailed /\ outcome.op \in ScoringOperations) => outcome.status = "raised"
    /\ is_initialized =>
           /\ components_present
           /\ toxicity_model = "toxicity_model_loaded"
           /\ light_ranker_model = "light_ranker_model_loaded"

\* All of C9 but run_full_analysis.
C9_GuardedOperations ==
    /\ (outcome.op = "initialize" /\ ~components_present) => outcome.status = "raised"
    /\ InitializeFailed => ~is_initialized
    /\ (InitializeFailed /\ outcome.op \in ScoringOperations \ {"run_full_analysis"})
           => outcome.status = "raised"
    /\ is_initialized =>
           /\ components_present
           /\ toxicity_model = "toxicity_model_loaded"
           /\ light_ranker_model = "light_ranker_model_loaded"

\* initialize failed, and run_full_analysis returns a result all the same.
C9_ScoredUninitialized ==
    /\ InitializeFailed
    /\ ~is_initialized
    /\ Scored

----------------------------------------------------------------------------
\* The place of each suggestion type in the order of the rules.
type_order == [ content |-> 1, engagement |-> 2, timing |-> 3, discoverability |-> 4 ]

(* C11: the enhanced generate_suggestions returns its suggestions in the   *)
(* order content, engagement, timing, discoverability, at most one of      *)
(* each type and so at most four, and returns none exactly when            *)
(* content_quality >= 0.6, social_signals >= 0.5, timing >= 0.7 and        *)
(* hashtag_count is in 1..3.                                               *)
C11_SuggestionOrder ==
    outcome.op = "generate_suggestions" =>
        LET suggestions == outcome.value.suggestions
            breakdown == outcome.value.breakdown
            features == outcome.value.features
        IN  /\ Len(suggestions) <= 4
            /\ \A i \in DOMAIN suggestions : suggestions[i].type \in DOMAIN type_order
            /\ \A i, j \in DOMAIN suggestions :
                   i < j => type_order[suggestions[i].type] < type_order[suggestions[j].type]
            /\ suggestions = << >>
                   <=> /\ breakdown.content_quality >= 600
                       /\ breakdown.social_signals >= 500
                       /\ breakdown.timing >= 700
                       /\ features.hashtag_count \in 1..3

\* No suggestion with every value on its threshold and three hashtags.
C11_Witness ==
    /\ outcome.op = "generate_suggestions"
    /\ outcome.value.breakdown.content_quality = 600
    /\ outcome.value.breakdown.social_signals = 500
    /\ outcome.value.breakdown.timing = 700
    /\ outcome.value.features.hashtag_count = 3
    /\ outcome.value.suggestions = << >>

(* C12: for every hour h of the day the timing score of the enhanced       *)
(* scorer is 0.9 for h in {9,10}, 0.85 for {12,13}, 0.8 for {17,18},       *)
(* 0.75 for {19,20,21}, 0.6 for 8, 11, 14, 15, 16 and 22, and 0.3 for      *)
(* 0..7 and 23.                                                            *)
C12_TimingSteps ==
    EnhancedScored =>
        /\ outcome.hour \in 0..23
        /\ outcome.value.score.breakdown.timing =
               CASE outcome.hour \in {9, 10} -> 900
                 [] outcome.hour \in {12, 13} -> 850
                 [] outcome.hour \in {17, 18} -> 800
                 [] outcome.hour \in {19, 20, 21} -> 750
                 [] outcome.hour \in {8, 11, 14, 15, 16, 22} -> 600
                 [] outcome.hour \in (0..7) \cup {23} -> 300

\* The last active hour, 22, scores 0.6.
C12_Witness ==
    /\ EnhancedScored
    /\ outcome.hour = 22
    /\ outcome.value.score.breakdown.timing = 600

(* C13: the enhanced content quality is the clamp to [0, 1] of 0.3, plus   *)
(* 0.3 for a length in 100..200, else plus 0.2 for a length in 50..280,    *)
(* else minus 0.1 for a length below 50 (nothing above 280); plus          *)
(* trending_score * 0.2, emotional_score * 0.15 and cta_score * 0.1; plus  *)
(* 0.1 with any question mark; plus 0.05 with one or two exclamation       *)
(* marks, minus 0.05 with more than three (nothing for none or three).     *)
C13_ContentQualityFormula ==
    outcome.op = "calculate_content_quality" =>
        LET features == outcome.value.features
            for_length ==
                CASE features.length \in 100..200 -> 300
                  [] features.length \in (50..99) \cup (201..280) -> 200
                  [] features.length < 50 -> -100
                  [] features.length > 280 -> 0
            for_words ==
                (calculate_trending_score(features.text) * 200) \div 1000
                    + (calculate_emotional_score(features.text) * 150) \div 1000
                    + (calculate_cta_score(features.text) * 100) \div 1000
            for_question == IF features.question_mark_count >= 1 THEN 100 ELSE 0
            for_exclamation ==
                CASE features.exclamation_count \in {1, 2} -> 50
                  [] features.exclamation_count \in {0, 3} -> 0
                  [] features.exclamation_count > 3 -> -50
            total == 300 + for_length + for_words + for_question + for_exclamation
        IN  outcome.value.content_quality =
                (IF total < 0 THEN 0 ELSE IF total > 1000 THEN 1000 ELSE total)

\* Exactly three exclamation marks in a short text: 0.3 - 0.1 and nothing
\* for the exclamation marks.
C13_Witness ==
    /\ outcome.op = "calculate_content_quality"
    /\ outcome.value.features.exclamation_count = 3
    /\ outcome.value.features.length < 50
    /\ outcome.value.content_quality = 200

\* The first two suggestions of the service.
improve_content ==
    Suggestion("content", "high",
        "Improve content quality by adding more engaging language or expanding the tweet", 15)

encourage_replies ==
    Suggestion("engagement", "high",
        "Add a question or call-to-action to encourage replies and engagement", 20)

(* C14: in the baseline variant, for every text and hour, content_quality  *)
(* is light_ranker_score * 0.4, at most 0.4, and social_signals is         *)
(* engagement_score * 0.3, at most 0.3, so the suggestions are never       *)
(* empty: they begin with the content suggestion followed by the           *)
(* engagement suggestion.                                                  *)
C14_BaselineAlwaysSuggests ==
    BaselineScored =>
        LET score == outcome.value.score
            suggestions == outcome.value.suggestions
        IN  /\ score.breakdown.content_quality = (score.light_ranker_score * 400) \div 1000
            /\ score.breakdown.content_quality <= 400
            /\ score.breakdown.social_signals = (score.engagement_score * 300) \div 1000
            /\ score.breakdown.social_signals <= 300
            /\ Len(suggestions) >= 2
            /\ suggestions[1] = improve_content
            /\ suggestions[2] = encourage_replies

\* The text with the largest sub-scores of the service at a peak hour: the
\* two suggestions and nothing else.
C14_Witness ==
    /\ BaselineScored
    /\ outcome.value.score.engagement_score = 1000
    /\ outcome.value.score.breakdown.content_quality = 352
    /\ outcome.hour \in peak_hours
    /\ outcome.value.suggestions = << improve_content, encourage_replies >>

(* C15: for every text, hour and reputation perturbation in [-0.1, 0.1]    *)
(* the virality score of the enhanced variant is never below 90:           *)
(* content_quality is at least 0.15, social_signals at least 0.05, timing  *)
(* at least 0.3 and user_reputation at least 0.4.                          *)
C15_EnhancedNeverBelow90 ==
    EnhancedScored =>
        /\ outcome.rnd \in -100..100
        /\ outcome.value.score.virality_score >= 90
        /\ outcome.value.score.breakdown.content_quality >= 150
        /\ outcome.value.score.breakdown.social_signals >= 50
        /\ outcome.value.score.breakdown.timing >= 300
        /\ outcome.value.score.breakdown.user_reputation >= 400
        /\ outcome.value.score.breakdown.safety_score >= 0

\* Every penalty at once, at night, with the lowest perturbation: all four
\* values at their least, and a score of 94.
C15_Witness ==
    /\ EnhancedScored
    /\ outcome.value.score.breakdown =
           [ content_quality |-> 150, social_signals |-> 50, timing |-> 300,
             user_reputation |-> 400, safety_score |-> 40 ]
    /\ outcome.value.score.virality_score = 94

----------------------------------------------------------------------------
(* Pairs of texts that differ in the word hate.                            *)

hate == <<"h","a","t","e">>

\* The words of the lookup tables (trending, emotional, call-to-action,
\* toxic) that occur in t.
table_matches(t) ==
    LET lowered == lower(t)
    IN  { trending_topics[k].word :
            k \in { n \in DOMAIN trending_topics : Contains(lowered, trending_topics[n].word) } }
        \cup { emotional_words[k].word :
                 k \in { n \in DOMAIN emotional_words : Contains(lowered, emotional_words[n].word) } }
        \cup { cta_words[k].word :
                 k \in { n \in DOMAIN cta_words : Contains(lowered, cta_words[n].word) } }
        \cup { Enhanced_toxic_words[k] :
                 k \in { n \in DOMAIN Enhanced_toxic_words : Contains(lowered, Enhanced_toxic_words[n]) } }

\* The only lookup-table match of t is hate.
only_hate(t) == Contains(lower(t), hate) /\ table_matches(t) = {hate}

\* t with every occurrence of hate crossed out.
masked(t) ==
    LET lowered == lower(t)
    IN  [ i \in 1..Len(t) |->
            IF \E k \in 0..3 : i - k >= 1 /\ MatchAt(lowered, i - k, hate)
            THEN "x" ELSE t[i] ]

\* t with every letter crossed out.
blanked(t) ==
    [ i \in 1..Len(t) |-> IF t[i] \in LowerLetters \cup UpperLetters THEN "x" ELSE t[i] ]

\* t cut or filled to length n.
resized(t, n) == IF n <= Len(t) THEN SubSeq(t, 1, n) ELSE PadTo(t, n)

\* The texts t is compared with.
twins(t) ==
    { masked(t), blanked(t), resized(masked(t), Len(t) + 1),
      resized(masked(t), Len(t) - 1) }

\* The length bands of calculate_content_quality (below 50, 50..99,
\* 100..200, 201..280, above 280) cut at the threshold of
\* calculate_user_reputation (above 100).
length_band(n) ==
    IF n < 50 THEN 1 ELSE IF n < 100 THEN 2 ELSE IF n = 100 THEN 3
    ELSE IF n <= 200 THEN 4 ELSE IF n <= 280 THEN 5 ELSE 6

\* The same length band, counts and flags.
same_shape(f, g) ==
    /\ length_band(f.length) = length_band(g.length)
    /\ f.hashtag_count = g.hashtag_count
    /\ f.mention_count = g.mention_count
    /\ f.question_mark_count = g.question_mark_count
    /\ f.exclamation_count = g.exclamation_count
    /\ f.has_url = g.has_url
    /\ f.has_media = g.has_media
    /\ f.is_retweet = g.is_retweet
    /\ f.is_reply = g.is_reply

\* u has the shape of the text scored and no lookup-table match.
plain_twin(u) ==
    /\ same_shape(outcome.value.score.features, Enhanced_extract_features(u))
    /\ table_matches(u) = {}

\* ... and the two texts agree on holding a professional word.
close_twin(u) ==
    /\ plain_twin(u)
    /\ AnyIn(professional_words, lower(u)) = AnyIn(professional_words, lower(text))

breakdown_sum(breakdown) ==
    breakdown.content_quality + breakdown.social_signals + breakdown.timing
        + breakdown.user_reputation + breakdown.safety_score

\* The score of u at the hour and with the random draw of the last call.
score_of(u) == Enhanced_calculate_virality_score(u)[outcome.hour, outcome.rnd].score

====
